---- MODULE Spec2Model ----
(***************************************************************************)
(* Vendor session store and vendor-identity resolution of the sayido       *)
(* vendor client (lib/vendor-session.ts, the tab screens and the login     *)
(* screens).                                                               *)
(*                                                                         *)
(* JavaScript strings are sequences of one-character strings, so that      *)
(* trim() and toLowerCase() are computed; the value undefined (and an      *)
(* absent object key read back) is the tuple Undefined, which is no        *)
(* string of characters.                                                   *)
(***************************************************************************)
EXTENDS Integers, Sequences, FiniteSets, TLC

VARIABLES
    mem,         \* globalThis[SESSION_KEY]: the in-memory VendorSession
    hasStorage,  \* typeof localStorage !== "undefined"
    disk,        \* localStorage's entry under SESSION_KEY
    last,        \* the session-store call made last: inputs, outcome, pre-state
    prev,        \* the operation of the session-store call made before it
    prev2,       \* the operation of the session-store call made before that
    lk,          \* a vendor lookup over a fetched list: inputs, function, result
    tk,          \* a token, the execution context, and what the decoders gave
    rq,          \* a GraphQL exchange: the endpoint, the response, the outcome
    mg,          \* two patches and the sessions their merges leave
    vw,          \* one mounted screen: its view state and its calls in flight
    env,         \* the execution context: atob, EXPO_PUBLIC_VENDOR_ID, the cookie
    nav,         \* the route shown: "login" or "tabs"
    params,      \* the route's search parameters
    load,        \* the screen load started last: its position and state
    started,     \* how many screen load were started
    login,       \* the login screen's handleLogin: its position and state
    logins,      \* how many login attempts passed validation
    held         \* the session's vendorId was non-empty at some time since
                 \* the last clearVendorSession() (or since the start)

sessVars == <<mem, hasStorage, disk>>
histVars == <<last, prev, prev2>>
lookVars == <<lk, tk, rq, mg, vw>>
appVars == <<env, nav, params, load, started, login, logins, held>>
vars == <<mem, hasStorage, disk, last, prev, prev2, lk, tk, rq, mg, vw, env, nav, params, load, started,
          login, logins, held>>

(***************************************************************************)
(* Values                                                                  *)
(***************************************************************************)
Undefined == <<"undefined">>
EmptyStr == <<>>

\* JavaScript truthiness of a value of type string | undefined.
Truthy(v) == v # Undefined /\ v # EmptyStr

(***************************************************************************)
(* Strings                                                                 *)
(***************************************************************************)
\* A value that is not of type string where a string is expected.
NonString == <<"nonstring">>

\* typeof value === "string"
IsString(v) == v # Undefined /\ v # NonString

\* a || b
Or(a, b) == IF Truthy(a) THEN a ELSE b

IsSpace(c) == c = " "

LowerChar(c) == CASE c = "A" -> "a" [] c = "B" -> "b" [] c = "C" -> "c" [] OTHER -> c

\* String.prototype.toLowerCase
ToLowerCase(s) == [i \in DOMAIN s |-> LowerChar(s[i])]

RECURSIVE TrimStart(_)
TrimStart(s) == IF s # <<>> /\ IsSpace(Head(s)) THEN TrimStart(Tail(s)) ELSE s

RECURSIVE TrimEnd(_)
TrimEnd(s) ==
    IF s # <<>> /\ IsSpace(s[Len(s)]) THEN TrimEnd(SubSeq(s, 1, Len(s) - 1)) ELSE s

\* String.prototype.trim
Trim(s) == TrimEnd(TrimStart(s))

\* const toText = (value, fallback = "") =>
\*   typeof value === "string" && value.trim() ? value : fallback
ToText(value, fallback) ==
    IF IsString(value) /\ Trim(value) # <<>> THEN value ELSE fallback

Min(S) == CHOOSE x \in S : \A y \in S : x <= y

Fields == {"vendorId", "email"}

VendorIdVals == {Undefined, EmptyStr, <<"1">>, <<"2">>}
EmailVals == {Undefined, <<"a">>}

FieldVals(f) == IF f = "vendorId" THEN VendorIdVals ELSE EmailVals

\* type VendorSession = { vendorId?: string; email?: string }
EmptySession == [vendorId |-> Undefined, email |-> Undefined]

Sessions == [vendorId : VendorIdVals, email : EmailVals]

\* An object literal passed to setVendorSession: the keys it has, each with
\* a string or with undefined.
Patches ==
    UNION {{p \in [D -> VendorIdVals \cup EmailVals] :
               \A f \in D : p[f] \in FieldVals(f)} : D \in SUBSET Fields}

\* memory.vendorId || memory.email
NonEmpty(s) == Truthy(s.vendorId) \/ Truthy(s.email)

\* { ...a, ...b }
Spread(a, b) == [f \in Fields |-> IF f \in DOMAIN b THEN b[f] ELSE a[f]]

(***************************************************************************)
(* Durable storage: the string under SESSION_KEY.                          *)
(*   kind "null"      no entry (getItem returns null)                      *)
(*   kind "empty"     the empty string                                     *)
(*   kind "garbage"   text JSON.parse rejects                              *)
(*   kind "nonobject" JSON for a number, a string, a boolean or null       *)
(*   kind "object"    JSON for an object with the keys of obj              *)
(***************************************************************************)
NoEntry == [kind |-> "null", obj |-> <<>>]

\* JSON.stringify drops the keys whose value is undefined.
JSONStringify(s) ==
    [kind |-> "object",
     obj |-> [f \in {g \in Fields : s[g] # Undefined} |-> s[f]]]

\* Reading a key the parsed object lacks gives undefined.
JSONParse(d) ==
    [f \in Fields |-> IF f \in DOMAIN d.obj THEN d.obj[f] ELSE Undefined]

ReadStorageNoCatch(hs, d, getThrows) ==
    IF ~hs THEN [value |-> EmptySession, raised |-> FALSE, calls |-> {}]
    ELSE IF getThrows
    THEN [value |-> EmptySession, raised |-> TRUE, calls |-> {"getItem"}]
    ELSE IF d.kind = "garbage"
    THEN [value |-> EmptySession, raised |-> TRUE, calls |-> {"getItem"}]
    ELSE [value |-> IF d.kind = "object" THEN JSONParse(d) ELSE EmptySession,
          raised |-> FALSE, calls |-> {"getItem"}]

\* readStorage keeping only the vendorId of the stored object.
ReadStorageVendorIdOnly(hs, d, getThrows) ==
    IF ~hs THEN [value |-> EmptySession, raised |-> FALSE, calls |-> {}]
    ELSE IF getThrows \/ d.kind # "object"
    THEN [value |-> EmptySession, raised |-> FALSE, calls |-> {"getItem"}]
    ELSE [value |-> [JSONParse(d) EXCEPT !.email = Undefined], raised |-> FALSE,
          calls |-> {"getItem"}]

ReadStorage(hs, d, getThrows) ==
    IF ~hs THEN [value |-> EmptySession, raised |-> FALSE, calls |-> {}]
    ELSE IF getThrows                     \* getItem throws: caught
    THEN [value |-> EmptySession, raised |-> FALSE, calls |-> {"getItem"}]
    ELSE IF d.kind \in {"null", "empty"}  \* if (!raw) return {}
    THEN [value |-> EmptySession, raised |-> FALSE, calls |-> {"getItem"}]
    ELSE IF d.kind = "garbage"            \* JSON.parse throws: caught
    THEN [value |-> EmptySession, raised |-> FALSE, calls |-> {"getItem"}]
    ELSE IF d.kind = "nonobject"          \* parsed && typeof parsed === "object"
    THEN [value |-> EmptySession, raised |-> FALSE, calls |-> {"getItem"}]
    ELSE [value |-> JSONParse(d), raised |-> FALSE, calls |-> {"getItem"}]

WriteStorage(hs, d, value, setThrows) ==
    IF ~hs THEN [disk |-> d, raised |-> FALSE, calls |-> {}]
    ELSE IF setThrows                     \* setItem throws: ignored
    THEN [disk |-> d, raised |-> FALSE, calls |-> {"setItem"}]
    ELSE [disk |-> JSONStringify(value), raised |-> FALSE, calls |-> {"setItem"}]

GetVendorSessionNoHydrate(m, hs, d, getThrows) ==
    IF NonEmpty(m)
    THEN [ret |-> m, mem |-> m, raised |-> FALSE, calls |-> {}]
    ELSE LET stored == ReadStorage(hs, d, getThrows) IN
         [ret |-> IF NonEmpty(stored.value) THEN stored.value ELSE EmptySession,
          mem |-> m, raised |-> stored.raised, calls |-> stored.calls]

GetVendorSession(m, hs, d, getThrows) ==
    IF NonEmpty(m)
    THEN [ret |-> m, mem |-> m, raised |-> FALSE, calls |-> {}]
    ELSE LET stored == ReadStorage(hs, d, getThrows) IN
         IF stored.raised
         THEN [ret |-> EmptySession, mem |-> m, raised |-> TRUE,
               calls |-> stored.calls]
         ELSE IF NonEmpty(stored.value)
         THEN [ret |-> stored.value, mem |-> stored.value, raised |-> FALSE,
               calls |-> stored.calls]
         ELSE [ret |-> EmptySession, mem |-> m, raised |-> FALSE,
               calls |-> stored.calls]

\* The patch replaces the session instead of being merged over it.
SetVendorSessionReplace(m, hs, d, next, getThrows, setThrows) ==
    LET got == GetVendorSession(m, hs, d, getThrows)
        merged == Spread(EmptySession, next)
        wrote == WriteStorage(hs, d, merged, setThrows)
    IN [mem |-> merged, disk |-> wrote.disk, raised |-> FALSE,
        base |-> got.ret, calls |-> got.calls \cup wrote.calls]

\* Memory is written only once the durable write went through.
SetVendorSessionStorageFirst(m, hs, d, next, getThrows, setThrows) ==
    LET got == GetVendorSession(m, hs, d, getThrows)
        merged == Spread(got.ret, next)
        wrote == WriteStorage(hs, d, merged, setThrows)
    IN [mem |-> IF hs /\ ~setThrows THEN merged ELSE got.mem,
        disk |-> wrote.disk, raised |-> FALSE,
        base |-> got.ret, calls |-> got.calls \cup wrote.calls]

SetVendorSession(m, hs, d, next, getThrows, setThrows) ==
    LET got == GetVendorSession(m, hs, d, getThrows) IN
    IF got.raised
    THEN [mem |-> got.mem, disk |-> d, raised |-> TRUE,
          base |-> got.ret, calls |-> got.calls]
    ELSE LET merged == Spread(got.ret, next)
             wrote == WriteStorage(hs, d, merged, setThrows)
         IN [mem |-> merged, disk |-> wrote.disk, raised |-> wrote.raised,
             base |-> got.ret, calls |-> got.calls \cup wrote.calls]

ClearVendorSession(m, hs, d, removeThrows) ==
    IF ~hs THEN [mem |-> EmptySession, disk |-> d, raised |-> FALSE, calls |-> {}]
    ELSE IF removeThrows                  \* removeItem throws: ignored
    THEN [mem |-> EmptySession, disk |-> d, raised |-> FALSE,
          calls |-> {"removeItem"}]
    ELSE [mem |-> EmptySession, disk |-> NoEntry, raised |-> FALSE,
          calls |-> {"removeItem"}]

(***************************************************************************)
(* The application around the session store: execution context, route,     *)
(* screen loads and login.                                                 *)
(***************************************************************************)
MaxLoads == 2
MaxLogins == 1

Screens == {"dashboard", "reservations", "packages"}

\* A compact token (the login response's access_token or the value of the
\* cookie access_tokenVendor): absent or empty, or text with segs
\* '.'-separated segments whose second segment
\*   "badbase64"  is text atob rejects,
\*   "badjson"    decodes to text JSON.parse rejects,
\*   "null"       decodes to the JSON text null,
\*   "object"     decodes to the UTF-8 JSON text of an object whose member
\*                sub is absent (Undefined), no string (NonString) or a string.
NoToken == [present |-> FALSE, segs |-> 0, payload |-> "none", sub |-> Undefined]

TokenWithSub(x) == [present |-> TRUE, segs |-> 3, payload |-> "object", sub |-> x]

MalformedToken == [present |-> TRUE, segs |-> 3, payload |-> "badbase64", sub |-> Undefined]

\* atob returns one character per byte: a character outside ASCII, encoded
\* in UTF-8 as two bytes, comes back as two characters.
RECURSIVE Atob(_)
Atob(s) ==
    IF s = <<>> THEN <<>>
    ELSE (IF Head(s) = "é" THEN <<"Ã", "©">> ELSE <<Head(s)>>) \o Atob(Tail(s))

\* JSON.parse(atob(base64)) throws: atob is not defined, the segment is no
\* base64, or the decoded text is no JSON.
PayloadThrows(hasAtob, t) == ~hasAtob \/ t.payload \in {"badbase64", "badjson"}

\* payload.sub as JSON.parse(atob(base64)) gives it.
PayloadSub(t) == IF IsString(t.sub) THEN Atob(t.sub) ELSE t.sub

\* readVendorIdFromCookie; document and atob exist in a browser only.
ReadVendorIdFromCookie(browser, c) ==
    IF ~browser THEN [value |-> EmptyStr, raised |-> FALSE]
    ELSE IF ~c.present THEN [value |-> EmptyStr, raised |-> FALSE]
    ELSE IF c.segs < 2 THEN [value |-> EmptyStr, raised |-> FALSE]
    ELSE IF PayloadThrows(TRUE, c)                 \* caught
    THEN [value |-> EmptyStr, raised |-> FALSE]
    ELSE IF c.payload = "null"                     \* payload.sub throws: caught
    THEN [value |-> EmptyStr, raised |-> FALSE]
    ELSE [value |-> ToText(PayloadSub(c), EmptyStr), raised |-> FALSE]

\* extractVendorIdFromJwt without its try/catch.
ExtractVendorIdFromJwtNoCatch(hasAtob, t) ==
    IF ~t.present THEN [value |-> EmptyStr, raised |-> FALSE]
    ELSE IF t.segs < 2 THEN [value |-> EmptyStr, raised |-> FALSE]
    ELSE IF PayloadThrows(hasAtob, t)
    THEN [value |-> EmptyStr, raised |-> TRUE]
    ELSE IF t.payload = "object" /\ IsString(PayloadSub(t))
    THEN [value |-> PayloadSub(t), raised |-> FALSE]
    ELSE [value |-> EmptyStr, raised |-> FALSE]

\* extractVendorIdFromJwt of the login screen.
ExtractVendorIdFromJwt(hasAtob, t) ==
    IF ~t.present THEN [value |-> EmptyStr, raised |-> FALSE]   \* if (!token)
    ELSE IF t.segs < 2 THEN [value |-> EmptyStr, raised |-> FALSE]
    ELSE IF PayloadThrows(hasAtob, t)              \* caught
    THEN [value |-> EmptyStr, raised |-> FALSE]
    ELSE IF t.payload = "object" /\ IsString(PayloadSub(t))   \* payload?.sub
    THEN [value |-> PayloadSub(t), raised |-> FALSE]
    ELSE [value |-> EmptyStr, raised |-> FALSE]

NoParams ==
    [vendor_id |-> Undefined, vendorId |-> Undefined, id |-> Undefined,
     vendor_email |-> Undefined, email |-> Undefined]

\* (typeof p === "string" && p) || rest
ParamOr(p, rest) == IF IsString(p) /\ Truthy(p) THEN p ELSE rest

\* The hint with the session consulted before the route parameters.
HintVendorIdSessionFirst(ps, session, envVendorId) ==
    Or(session.vendorId,
       ParamOr(ps.vendor_id,
         ParamOr(ps.vendorId, ParamOr(ps.id, Or(envVendorId, EmptyStr)))))

\* const vendorId = params.vendor_id || params.vendorId || params.id ||
\*                  vendorSession.vendorId || process.env.EXPO_PUBLIC_VENDOR_ID || ""
HintVendorId(ps, session, envVendorId) ==
    ParamOr(ps.vendor_id,
      ParamOr(ps.vendorId,
        ParamOr(ps.id, Or(session.vendorId, Or(envVendorId, EmptyStr)))))

\* const vendorEmail = params.vendor_email || params.email || vendorSession.email || ""
HintVendorEmail(ps, session) ==
    ParamOr(ps.vendor_email, ParamOr(ps.email, Or(session.email, EmptyStr)))

\* The Packages screen asks findVendorByEmail and sends nothing for a blank
\* email; the other two fetch findAllVendors whatever the email.
LookupSendsRequest(screen, email) == screen # "packages" \/ Trim(email) # <<>>

\* if (!resolvedVendorId) throw new Error("Could not resolve vendor id ...")
\* left out: the load goes on with whatever was resolved.
UnresolvedNeverThrows(resolved) == FALSE

\* if (!resolvedVendorId) throw new Error("Could not resolve vendor id ...")
Unresolved(resolved) == ~Truthy(resolved)

\* setVendorSession({ vendorId: resolvedVendorId, email: vendorEmail || vendorSession.email })
ScreenPatch(l, resolved) ==
    [vendorId |-> resolved, email |-> Or(l.hintEmail, l.sessEmail)]

\* The vendors the backend knows.
Directory == <<[id |-> <<"1">>, email |-> <<"a">>], [id |-> <<"2">>, email |-> <<"b">>]>>

\* What findAllVendors may answer with.
BackendLists == {<<>>, Directory}

\* What findVendorByEmail may answer with: null or a vendor.
BackendVendors == {[id |-> Undefined, email |-> Undefined]} \cup {Directory[i] : i \in DOMAIN Directory}

\* How a GraphQL request fails for the load that awaits it: fetch rejects, or
\* graphQlRequest throws over the response (its status, its errors, its
\* missing data: one throw for the caller, told apart under SpecRequest).
Failures == {"transport", "graphql"}

\* The body of a response as await response.json() gives it; a body that
\* is no JSON leaves payload = {}.
Payload(r) ==
    IF r.body = "json" THEN [errors |-> r.errors, data |-> r.data]
    ELSE [errors |-> "absent", data |-> "absent"]

\* graphQlRequest returning payload.data whatever payload.errors holds.
GraphQlRequestIgnoringErrors(hasUrl, r) ==
    IF ~hasUrl THEN [returned |-> FALSE, threw |-> TRUE, error |-> "nourl"]
    ELSE IF r.fetch = "rejects"
    THEN [returned |-> FALSE, threw |-> TRUE, error |-> "transport"]
    ELSE IF ~r.ok
    THEN [returned |-> FALSE, threw |-> TRUE, error |-> "http"]
    ELSE IF Payload(r).data # "present"
    THEN [returned |-> FALSE, threw |-> TRUE, error |-> "nodata"]
    ELSE [returned |-> TRUE, threw |-> FALSE, error |-> ""]

\* graphQlRequest of the screens: the data, or an exception.
GraphQlRequest(hasUrl, r) ==
    IF ~hasUrl                            \* if (!graphQlUrl) throw
    THEN [returned |-> FALSE, threw |-> TRUE, error |-> "nourl"]
    ELSE IF r.fetch = "rejects"           \* await fetch(...) rejects
    THEN [returned |-> FALSE, threw |-> TRUE, error |-> "transport"]
    ELSE IF ~r.ok                         \* !response.ok
    THEN [returned |-> FALSE, threw |-> TRUE, error |-> "http"]
    ELSE IF Payload(r).errors = "some"    \* payload.errors?.length
    THEN [returned |-> FALSE, threw |-> TRUE, error |-> "graphql"]
    ELSE IF Payload(r).data # "present"   \* !payload.data
    THEN [returned |-> FALSE, threw |-> TRUE, error |-> "nodata"]
    ELSE [returned |-> TRUE, threw |-> FALSE, error |-> ""]

\* The request inside the login screens' resolveVendorIdByEmail: the data,
\* or "" for every failure; nothing is thrown.
LoginLookupRequest(hasUrl, r) ==
    IF ~hasUrl                            \* if (!graphQlUrl) return ""
    THEN [returned |-> FALSE, threw |-> FALSE, error |-> "nourl"]
    ELSE IF r.fetch = "rejects"           \* caught
    THEN [returned |-> FALSE, threw |-> FALSE, error |-> "transport"]
    ELSE IF r.body # "json"               \* response.json() throws: caught
    THEN [returned |-> FALSE, threw |-> FALSE, error |-> "nodata"]
    ELSE IF ~r.ok
    THEN [returned |-> FALSE, threw |-> FALSE, error |-> "http"]
    ELSE IF r.errors = "some"
    THEN [returned |-> FALSE, threw |-> FALSE, error |-> "graphql"]
    ELSE IF r.data # "present"            \* payload.data?.findVendorByEmail
    THEN [returned |-> FALSE, threw |-> FALSE, error |-> "nodata"]
    ELSE [returned |-> TRUE, threw |-> FALSE, error |-> ""]

IdleLoad ==
    [screen |-> "none", pc |-> "idle", hintId |-> EmptyStr, hintEmail |-> EmptyStr,
     sessEmail |-> Undefined, resolved |-> EmptyStr, error |-> "",
     lookups |-> 0, cookieReads |-> 0, queried |-> {}, failedAt |-> "",
     found |-> EmptyStr, requests |-> 0, left |-> FALSE]

\* A login response without vendor id and without token.
BarePayload == [vendorId |-> Undefined, vendor_id |-> Undefined, access_token |-> NoToken]

IdleLogin ==
    [pc |-> "idle", kind |-> "none", email |-> EmptyStr, resolved |-> EmptyStr,
     error |-> "", loading |-> FALSE, payload |-> BarePayload, lookups |-> 0,
     found |-> EmptyStr]

\* getVendorSession().vendorId
SessionVendorId(m, hs, d) == GetVendorSession(m, hs, d, FALSE).ret.vendorId

\* Nothing of the application runs (the specifications of the session store
\* and of the lookup alone).
AppIdle ==
    /\ env = [atob |-> FALSE, vendorId |-> Undefined, cookie |-> NoToken]
    /\ nav = "login"
    /\ params = NoParams
    /\ load = IdleLoad
    /\ started = 0
    /\ login = IdleLogin
    /\ logins = 0
    /\ held = FALSE

(***************************************************************************)
(* The session store driven by arbitrary callers, with a durable storage   *)
(* that is absent or present and whose every call may throw.               *)
(***************************************************************************)
\* No decoder has run.
NotDecoded == [value |-> EmptyStr, raised |-> FALSE, next |-> "none"]

NoDecoding ==
    [token |-> NoToken, atob |-> FALSE, document |-> FALSE,
     jwt |-> NotDecoded, cookie |-> NotDecoded]

\* No merges were compared.
NoMerge ==
    [p1 |-> <<>>, p2 |-> <<>>, fails |-> FALSE, ran |-> "none",
     first |-> EmptySession, second |-> EmptySession,
     other |-> EmptySession, swapped |-> EmptySession]

\* No screen is mounted.
NoView ==
    [component |-> "none", hint |-> EmptyStr, data |-> [by |-> 0, rows |-> FALSE],
     errorMessage |-> 0, loading |-> FALSE, refreshing |-> FALSE, calls |-> <<>>,
     entered |-> FALSE]

\* No request was made.
NoOutcome == [copy |-> "none", returned |-> FALSE, threw |-> FALSE, error |-> ""]

NoRequest ==
    [url |-> TRUE,
     response |-> [fetch |-> "answers", ok |-> TRUE, body |-> "json",
                   errors |-> "absent", data |-> "present"],
     out |-> NoOutcome]

\* No lookup has run.
NoLookup == [vendors |-> <<>>, email |-> EmptyStr, fn |-> "none", result |-> EmptyStr]

NoCall ==
    [op |-> "init", patch |-> <<>>, base |-> EmptySession, ret |-> EmptySession,
     memBefore |-> EmptySession, diskBefore |-> NoEntry, raised |-> FALSE,
     calls |-> {}, threw |-> {}]

Brief(c) == c.op

\* What an earlier run of the program, or anything else, left in storage.
InitialDisks ==
    {NoEntry,
     [kind |-> "empty", obj |-> <<>>],
     [kind |-> "garbage", obj |-> <<>>],
     [kind |-> "nonobject", obj |-> <<>>]}
    \cup {JSONStringify(s) : s \in Sessions}

SessionInit ==
    /\ mem = EmptySession
    /\ hasStorage \in BOOLEAN
    /\ disk \in IF hasStorage THEN InitialDisks ELSE {NoEntry}
    /\ last = NoCall
    /\ prev = Brief(NoCall)
    /\ prev2 = Brief(NoCall)
    /\ lk = NoLookup
    /\ tk = NoDecoding
    /\ rq = NoRequest
    /\ mg = NoMerge
    /\ vw = NoView
    /\ AppIdle

\* getItem is reached only with an empty memory and a storage.
GetItemOutcomes == IF hasStorage /\ ~NonEmpty(mem) THEN BOOLEAN ELSE {FALSE}

StorageOutcomes == IF hasStorage THEN BOOLEAN ELSE {FALSE}

SessionGet ==
    \E getThrows \in GetItemOutcomes :
        LET r == GetVendorSession(mem, hasStorage, disk, getThrows) IN
        /\ mem' = r.mem
        /\ last' = [op |-> "get", patch |-> <<>>, base |-> EmptySession,
                    ret |-> r.ret, memBefore |-> mem, diskBefore |-> disk,
                    raised |-> r.raised, calls |-> r.calls,
                    threw |-> IF getThrows THEN {"getItem"} ELSE {}]
        /\ prev' = Brief(last)
        /\ prev2' = prev
        /\ UNCHANGED <<hasStorage, disk>>
        /\ UNCHANGED <<lookVars, appVars>>

SessionSet ==
    \E next \in Patches, getThrows \in GetItemOutcomes, setThrows \in StorageOutcomes :
        LET r == SetVendorSession(mem, hasStorage, disk, next, getThrows, setThrows) IN
        /\ mem' = r.mem
        /\ disk' = r.disk
        /\ last' = [op |-> "set", patch |-> next, base |-> r.base,
                    ret |-> EmptySession, memBefore |-> mem, diskBefore |-> disk,
                    raised |-> r.raised, calls |-> r.calls,
                    threw |-> (IF getThrows THEN {"getItem"} ELSE {}) \cup
                              (IF setThrows THEN {"setItem"} ELSE {})]
        /\ prev' = Brief(last)
        /\ prev2' = prev
        /\ UNCHANGED hasStorage
        /\ UNCHANGED <<lookVars, appVars>>

SessionClear ==
    \E removeThrows \in StorageOutcomes :
        LET r == ClearVendorSession(mem, hasStorage, disk, removeThrows) IN
        /\ mem' = r.mem
        /\ disk' = r.disk
        /\ last' = [op |-> "clear", patch |-> <<>>, base |-> EmptySession,
                    ret |-> EmptySession, memBefore |-> mem, diskBefore |-> disk,
                    raised |-> r.raised, calls |-> r.calls,
                    threw |-> IF removeThrows THEN {"removeItem"} ELSE {}]
        /\ prev' = Brief(last)
        /\ prev2' = prev
        /\ UNCHANGED hasStorage
        /\ UNCHANGED <<lookVars, appVars>>

\* The process ends and a new one starts: globalThis is fresh.
SessionRestart ==
    /\ last.op # "restart"
    /\ mem' = EmptySession
    /\ last' = [NoCall EXCEPT !.op = "restart", !.memBefore = mem,
                             !.diskBefore = disk]
    /\ prev' = Brief(last)
    /\ prev2' = prev
    /\ UNCHANGED <<hasStorage, disk>>
    /\ UNCHANGED <<lookVars, appVars>>

SessionNext == SessionGet \/ SessionSet \/ SessionClear \/ SessionRestart

SpecSession == SessionInit /\ [][SessionNext]_vars

(***************************************************************************)
(* Two merges in a row, from every session and storage content, with a     *)
(* storage whose writes all go through or all throw.                       *)
(***************************************************************************)
MergeInit ==
    /\ mem \in Sessions
    /\ hasStorage \in BOOLEAN
    /\ disk \in IF hasStorage THEN InitialDisks ELSE {NoEntry}
    /\ last = NoCall
    /\ prev = Brief(NoCall)
    /\ prev2 = Brief(NoCall)
    /\ lk = NoLookup
    /\ tk = NoDecoding
    /\ rq = NoRequest
    /\ mg \in [p1 : Patches, p2 : Patches, fails : StorageOutcomes, ran : {"none"},
               first : {EmptySession}, second : {EmptySession},
               other : {EmptySession}, swapped : {EmptySession}]
    /\ vw = NoView
    /\ AppIdle

\* setVendorSession(a); setVendorSession(b) from memory m and entry d: the
\* memory after the first call and after the second.
MergeThen(m, d, a, b, fails) ==
    LET r1 == SetVendorSession(m, hasStorage, d, a, FALSE, fails)
        r2 == SetVendorSession(r1.mem, hasStorage, r1.disk, b, FALSE, fails)
    IN [first |-> r1.mem, second |-> r2.mem]

\* setVendorSession(p1) twice.
MergeTwice ==
    /\ mg.ran = "none"
    /\ LET r == MergeThen(mem, disk, mg.p1, mg.p1, mg.fails) IN
       mg' = [mg EXCEPT !.ran = "twice", !.first = r.first, !.second = r.second]
    /\ UNCHANGED <<lk, tk, rq, vw, sessVars, histVars, appVars>>

\* setVendorSession(p1); setVendorSession(p2), and the two the other way
\* round from the same start.
MergeBothOrders ==
    /\ mg.ran = "none"
    /\ LET r == MergeThen(mem, disk, mg.p1, mg.p2, mg.fails)
           o == MergeThen(mem, disk, mg.p2, mg.p1, mg.fails)
       IN mg' = [mg EXCEPT !.ran = "orders", !.first = r.first, !.second = r.second,
                           !.other = o.first, !.swapped = o.second]
    /\ UNCHANGED <<lk, tk, rq, vw, sessVars, histVars, appVars>>

MergeNext == MergeTwice \/ MergeBothOrders

SpecMerge == MergeInit /\ [][MergeNext]_vars

(***************************************************************************)
(* One mounted component (a data screen or the token-based login screen),  *)
(* its view state, and its calls of loadData / handleLogin, which overlap  *)
(* at their awaits. Call i shows its rows or its error as number i.        *)
(***************************************************************************)
MaxCalls == 3

Components == {"dashboard", "reservations", "packages", "login"}

\* What starts a call: the mount effect (run again when loadData changes),
\* the focus effect, the app becoming active, pull-to-refresh, Try Again,
\* the Login button.
Triggers == {"mount", "focus", "active", "refresh", "retry", "submit"}

ViewInit ==
    /\ mem = EmptySession
    /\ hasStorage \in BOOLEAN
    /\ disk = NoEntry
    /\ last = NoCall
    /\ prev = Brief(NoCall)
    /\ prev2 = Brief(NoCall)
    /\ lk = NoLookup
    /\ tk = NoDecoding
    /\ rq = NoRequest
    /\ mg = NoMerge
    /\ vw \in {[NoView EXCEPT !.component = c, !.hint = h, !.loading = (c # "login")] :
                  c \in Components, h \in {EmptyStr, <<"1">>}}
    /\ vw.component = "login" => vw.hint = EmptyStr
    /\ AppIdle

\* The component offers the trigger in its present view.
Allowed(v, t) ==
    CASE t = "mount" -> v.component # "login"
      [] t \in {"focus", "active"} -> v.component = "packages"
      [] t = "refresh" -> v.component # "login" /\ ~v.loading /\ v.errorMessage = 0
      [] t = "retry" -> v.component # "login" /\ ~v.loading /\ v.errorMessage # 0
      [] t = "submit" -> v.component = "login" /\ ~v.loading /\ ~v.entered

\* setErrorMessage("") at the start of the call; before it setRefreshing(true)
\* by onRefresh (the Dashboard's RefreshControl calls loadDashboardData
\* directly) and after it setLoading(true) by handleLogin.
Started(v, t) ==
    [v EXCEPT !.errorMessage = 0,
              !.refreshing = IF t = "refresh" /\ v.component # "dashboard" THEN TRUE ELSE @,
              !.loading = IF t = "submit" THEN TRUE ELSE @]

\* The catch block of call i: the data reset to empty (screens) and the
\* error message set.
Catch(v, i) ==
    IF v.component = "login"
    THEN [v EXCEPT !.errorMessage = i]
    ELSE [v EXCEPT !.data = [by |-> i, rows |-> FALSE], !.errorMessage = i]

\* A finally block without setRefreshing(false).
FinallyLoadingOnly(v) == [v EXCEPT !.loading = FALSE]

\* The finally block: setLoading(false); setRefreshing(false) on the screens,
\* setLoading(false) on the login screen.
Finally(v) ==
    IF v.component = "login"
    THEN [v EXCEPT !.loading = FALSE]
    ELSE [v EXCEPT !.loading = FALSE, !.refreshing = FALSE]

\* vendorId as the render computes it, the route's id then the session's.
ViewVendorId == Or(vw.hint, Or(SessionVendorId(mem, hasStorage, disk), EmptyStr))

\* A call starts and runs up to its first await.
ViewStart(t) ==
    /\ Len(vw.calls) < MaxCalls
    /\ Allowed(vw, t)
    /\ LET v == Started(vw, t) IN
       IF vw.component = "login"
       THEN LET c == ClearVendorSession(mem, hasStorage, disk, FALSE) IN
            /\ mem' = c.mem /\ disk' = c.disk
            /\ vw' = [v EXCEPT !.calls = Append(@, [pc |-> "resolving", trigger |-> t])]
       ELSE IF Truthy(ViewVendorId)
       THEN LET w == SetVendorSession(mem, hasStorage, disk,
                                      ScreenPatch(IdleLoad, ViewVendorId), FALSE, FALSE) IN
            /\ mem' = w.mem /\ disk' = w.disk
            /\ vw' = [v EXCEPT !.calls = Append(@, [pc |-> "querying", trigger |-> t])]
       ELSE /\ UNCHANGED <<mem, disk>>
            /\ vw' = [v EXCEPT !.calls = Append(@, [pc |-> "resolving", trigger |-> t])]
    /\ UNCHANGED <<hasStorage, histVars, lk, tk, rq, mg, appVars>>

\* The awaited resolution of call i is over: it threw, or gave an id. An
\* empty id makes the call throw; the login screen then opens the tabs, a
\* screen sends its data queries.
ViewResolved(i, id, threw) ==
    /\ i <= Len(vw.calls)
    /\ vw.calls[i].pc = "resolving"
    /\ IF threw \/ Unresolved(id)
       THEN /\ vw' = Finally(Catch([vw EXCEPT !.calls[i].pc = "failed"], i))
            /\ UNCHANGED <<mem, disk>>
       ELSE IF vw.component = "login"
       THEN LET w == SetVendorSession(mem, hasStorage, disk,
                                      [email |-> <<"a">>, vendorId |-> id], FALSE, FALSE) IN
            /\ mem' = w.mem /\ disk' = w.disk
            /\ vw' = Finally([vw EXCEPT !.calls[i].pc = "ok", !.entered = TRUE])
       ELSE LET w == SetVendorSession(mem, hasStorage, disk,
                                      ScreenPatch(IdleLoad, id), FALSE, FALSE) IN
            /\ mem' = w.mem /\ disk' = w.disk
            /\ vw' = [vw EXCEPT !.calls[i].pc = "querying"]
    /\ UNCHANGED <<hasStorage, histVars, lk, tk, rq, mg, appVars>>

\* The data queries of call i are over: the rows are shown, or the catch
\* block runs.
ViewQueried(i, ok, rows) ==
    /\ i <= Len(vw.calls)
    /\ vw.calls[i].pc = "querying"
    /\ vw' = IF ok
             THEN Finally([vw EXCEPT !.calls[i].pc = "ok",
                                     !.data = [by |-> i, rows |-> rows]])
             ELSE Finally(Catch([vw EXCEPT !.calls[i].pc = "failed"], i))
    /\ UNCHANGED <<sessVars, histVars, lk, tk, rq, mg, appVars>>

ViewNext ==
    \/ \E t \in Triggers : ViewStart(t)
    \/ \E i \in 1..MaxCalls, id \in {EmptyStr, <<"1">>}, threw \in BOOLEAN :
          ViewResolved(i, id, threw)
    \/ \E i \in 1..MaxCalls, ok \in BOOLEAN, rows \in BOOLEAN : ViewQueried(i, ok, rows)

SpecView == ViewInit /\ [][ViewNext]_vars

(***************************************************************************)
(* Vendor lookup over the list findAllVendors returns.                     *)
(***************************************************************************)
MaxVendors == 2

\* vendors.find(...): the index of the first match, 0 for undefined.
FirstIndex(S) == IF S = {} THEN 0 ELSE Min(S)

\* vendors[i]?.id and matched?.id
IdAt(vendors, i) == IF i \in DOMAIN vendors THEN vendors[i].id ELSE Undefined

\* loadVendorIdByEmail of the Dashboard and Reservations screens, from the
\* fetched list on.
LoadVendorIdByEmail(vendors, email) ==
    IF Trim(email) = <<>>
    THEN ToText(IdAt(vendors, 1), EmptyStr)
    ELSE LET target == ToLowerCase(Trim(email))
             matched == FirstIndex({i \in DOMAIN vendors :
                            ToLowerCase(ToText(vendors[i].email, EmptyStr)) = target})
         IN Or(ToText(IdAt(vendors, matched), EmptyStr),
               ToText(IdAt(vendors, 1), EmptyStr))

\* resolveVendorIdByEmail of the list-based login screens, from the fetched
\* list on (a blank target returns "" before any request).
ResolveVendorIdByEmailList(vendors, targetEmail) ==
    IF Trim(targetEmail) = <<>> THEN EmptyStr
    ELSE LET normalizedTarget == ToLowerCase(Trim(targetEmail))
             matched == FirstIndex({i \in DOMAIN vendors :
                            /\ IsString(vendors[i].email)
                            /\ ToLowerCase(Trim(vendors[i].email)) = normalizedTarget})
             id == IdAt(vendors, matched)
         IN IF IsString(id) THEN id ELSE EmptyStr

ListedIds == {<<"1">>, <<"2">>, EmptyStr}
ListedEmails == {<<"a">>, <<"A">>, <<"a", " ">>, <<"b">>, Undefined}
TargetEmails == {EmptyStr, <<" ">>, <<"a">>, <<"A", " ">>, <<"c">>}

VendorLists ==
    UNION {[1..n -> [id : ListedIds, email : ListedEmails]] : n \in 0..MaxVendors}

LookupInit ==
    /\ mem = EmptySession
    /\ hasStorage = FALSE
    /\ disk = NoEntry
    /\ last = NoCall
    /\ prev = Brief(NoCall)
    /\ prev2 = Brief(NoCall)
    /\ lk \in [vendors : VendorLists, email : TargetEmails,
               fn : {"none"}, result : {EmptyStr}]
    /\ tk = NoDecoding
    /\ rq = NoRequest
    /\ mg = NoMerge
    /\ vw = NoView
    /\ AppIdle

LookupInScreen ==
    /\ lk.fn = "none"
    /\ lk' = [lk EXCEPT !.fn = "screen",
                        !.result = LoadVendorIdByEmail(lk.vendors, lk.email)]
    /\ UNCHANGED <<tk, rq, mg, vw, sessVars, histVars, appVars>>

LookupInLogin ==
    /\ lk.fn = "none"
    /\ lk' = [lk EXCEPT !.fn = "login",
                        !.result = ResolveVendorIdByEmailList(lk.vendors, lk.email)]
    /\ UNCHANGED <<tk, rq, mg, vw, sessVars, histVars, appVars>>

LookupNext == LookupInScreen \/ LookupInLogin

SpecLookup == LookupInit /\ [][LookupNext]_vars

(***************************************************************************)
(* The token decoders over every token and execution context, each with    *)
(* the step of the resolution chain that follows it.                       *)
(***************************************************************************)
\* The values of the member sub of a token's payload.
SubClaims == {Undefined, NonString, EmptyStr, <<" ">>, <<"1">>, <<"V", "1">>, <<"é">>}

Tokens ==
    {NoToken}
    \cup [present : {TRUE}, segs : {1, 2, 3},
          payload : {"badbase64", "badjson", "null"}, sub : {Undefined}]
    \cup [present : {TRUE}, segs : {1, 2, 3}, payload : {"object"}, sub : SubClaims]

TokenInit ==
    /\ mem = EmptySession
    /\ hasStorage = FALSE
    /\ disk = NoEntry
    /\ last = NoCall
    /\ prev = Brief(NoCall)
    /\ prev2 = Brief(NoCall)
    /\ lk = NoLookup
    /\ tk \in [token : Tokens, atob : BOOLEAN, document : BOOLEAN,
               jwt : {NotDecoded}, cookie : {NotDecoded}]
    /\ rq = NoRequest
    /\ mg = NoMerge
    /\ vw = NoView
    /\ AppIdle

\* handleLogin after extractVendorIdFromJwt, the response carrying no id:
\* tokenVendorId || (await resolveVendorIdByEmail(...)); an exception goes
\* to handleLogin's catch block.
LoginAfterToken(d) ==
    IF d.raised THEN "catch" ELSE IF Truthy(d.value) THEN "resolved" ELSE "lookup"

\* A screen's load after readVendorIdFromCookie, the last strategy:
\* if (!resolvedVendorId) throw ...
ScreenAfterCookie(d) ==
    IF d.raised THEN "catch" ELSE IF Truthy(d.value) THEN "resolved" ELSE "unresolved"

DecodeAtLogin ==
    /\ tk.jwt.next = "none"
    /\ LET d == ExtractVendorIdFromJwt(tk.atob, tk.token) IN
       tk' = [tk EXCEPT !.jwt = [value |-> d.value, raised |-> d.raised,
                                 next |-> LoginAfterToken(d)]]
    /\ UNCHANGED <<lk, rq, mg, vw, sessVars, histVars, appVars>>

DecodeCookie ==
    /\ tk.cookie.next = "none"
    /\ LET d == ReadVendorIdFromCookie(tk.document /\ tk.atob, tk.token) IN
       tk' = [tk EXCEPT !.cookie = [value |-> d.value, raised |-> d.raised,
                                    next |-> ScreenAfterCookie(d)]]
    /\ UNCHANGED <<lk, rq, mg, vw, sessVars, histVars, appVars>>

TokenNext == DecodeAtLogin \/ DecodeCookie

SpecToken == TokenInit /\ [][TokenNext]_vars

(***************************************************************************)
(* One GraphQL exchange, over every response and with or without the       *)
(* endpoint URL, through each copy of the request code.                    *)
(***************************************************************************)
\* What the backend, or the network, can answer a request with.
Responses ==
    [fetch : {"rejects", "answers"}, ok : BOOLEAN, body : {"unparseable", "json"},
     errors : {"absent", "empty", "some"}, data : {"absent", "null", "present"}]

\* The copies of the request code: graphQlRequest of the Dashboard, of the
\* Reservations screen and of the Packages screen, and the login screens'
\* resolveVendorIdByEmail.
Copies == {"dashboard", "reservations", "packages", "login"}

RequestInit ==
    /\ mem = EmptySession
    /\ hasStorage = FALSE
    /\ disk = NoEntry
    /\ last = NoCall
    /\ prev = Brief(NoCall)
    /\ prev2 = Brief(NoCall)
    /\ lk = NoLookup
    /\ tk = NoDecoding
    /\ rq \in [url : BOOLEAN, response : Responses, out : {NoOutcome}]
    /\ mg = NoMerge
    /\ vw = NoView
    /\ AppIdle

Request(copy) ==
    /\ rq.out.copy = "none"
    /\ LET r == IF copy = "login" THEN LoginLookupRequest(rq.url, rq.response)
                ELSE GraphQlRequest(rq.url, rq.response)
       IN rq' = [rq EXCEPT !.out = [copy |-> copy, returned |-> r.returned,
                                    threw |-> r.threw, error |-> r.error]]
    /\ UNCHANGED <<lk, tk, mg, vw, sessVars, histVars, appVars>>

RequestNext == \E copy \in Copies : Request(copy)

SpecRequest == RequestInit /\ [][RequestNext]_vars

(***************************************************************************)
(* The hints a screen computes when it renders, over every combination of  *)
(* route parameters, session and environment default.                      *)
(***************************************************************************)
HintParams ==
    [vendor_id : {Undefined, EmptyStr, <<"1">>},
     vendorId : {Undefined, EmptyStr, <<"2">>},
     id : {Undefined, EmptyStr, <<"3">>},
     vendor_email : {Undefined, EmptyStr, <<"a">>},
     email : {Undefined, <<"b">>}]

HintSessions == [vendorId : {Undefined, EmptyStr, <<"4">>}, email : {Undefined, <<"c">>}]

HintInit ==
    /\ mem \in HintSessions
    /\ hasStorage = FALSE
    /\ disk = NoEntry
    /\ last = NoCall
    /\ prev = Brief(NoCall)
    /\ prev2 = Brief(NoCall)
    /\ lk = NoLookup
    /\ tk = NoDecoding
    /\ rq = NoRequest
    /\ mg = NoMerge
    /\ vw = NoView
    /\ env \in [atob : {FALSE}, vendorId : {Undefined, EmptyStr, <<"9">>}, cookie : {NoToken}]
    /\ nav = "tabs"
    /\ params \in HintParams
    /\ load = IdleLoad
    /\ started = 0
    /\ login = IdleLogin
    /\ logins = 0
    /\ held = FALSE

\* A screen renders: it reads the session and the route and computes its
\* hints.
Render(s) ==
    /\ load.screen = "none"
    /\ LET got == GetVendorSession(mem, hasStorage, disk, FALSE) IN
       /\ load' = [IdleLoad EXCEPT
                      !.screen = s,
                      !.hintId = HintVendorId(params, got.ret, env.vendorId),
                      !.hintEmail = HintVendorEmail(params, got.ret),
                      !.sessEmail = got.ret.email]
       /\ mem' = got.mem
    /\ UNCHANGED <<hasStorage, disk, histVars, lookVars, env, nav, params, started, login,
                   logins, held>>

HintNext == \E s \in Screens : Render(s)

SpecHint == HintInit /\ [][HintNext]_vars

(***************************************************************************)
(* The application: login, the three data screens, logout.  The storage,   *)
(* when there is one, works.                                               *)
(***************************************************************************)
\* A session an earlier run of the program left in storage.
EarlierSession == [vendorId |-> <<"2">>, email |-> <<"b">>]

\* The search parameters the tabs can be opened with, without a login.
DeepLinks == {NoParams, [NoParams EXCEPT !.id = <<"1">>]}

TypedEmails == {<<" ">>, <<"a">>, <<"B", " ">>}

\* The login screens: "token" reads the login response and its token before
\* asking findVendorByEmail; "list" asks findAllVendors.
LoginKinds == {"token", "list"}

\* Bodies of a successful login response.
LoginPayloads ==
    {BarePayload,
     [vendorId |-> <<"2">>, vendor_id |-> Undefined, access_token |-> NoToken],
     [vendorId |-> Undefined, vendor_id |-> <<"1">>, access_token |-> NoToken],
     [vendorId |-> Undefined, vendor_id |-> Undefined, access_token |-> TokenWithSub(<<"1">>)],
     [vendorId |-> Undefined, vendor_id |-> Undefined, access_token |-> MalformedToken]}

AppInit ==
    /\ mem = EmptySession
    /\ hasStorage \in BOOLEAN
    /\ disk \in IF hasStorage THEN {NoEntry, JSONStringify(EarlierSession)} ELSE {NoEntry}
    /\ last = NoCall
    /\ prev = Brief(NoCall)
    /\ prev2 = Brief(NoCall)
    /\ lk = NoLookup
    /\ tk = NoDecoding
    /\ rq = NoRequest
    /\ mg = NoMerge
    /\ vw = NoView
    /\ env \in [atob : IF hasStorage THEN {TRUE} ELSE BOOLEAN,
                vendorId : {Undefined, <<"9">>},
                cookie : IF hasStorage
                         THEN {NoToken, TokenWithSub(<<"2">>), MalformedToken}
                         ELSE {NoToken}]
    /\ \/ nav = "login" /\ params = NoParams
       \/ nav = "tabs" /\ params \in DeepLinks
    /\ load = IdleLoad
    /\ started = 0
    /\ login = IdleLogin
    /\ logins = 0
    /\ held = Truthy(SessionVendorId(mem, hasStorage, disk))

\* const resolvedVendorId = vendorId || ... evaluated the other way round:
\* the hint never stops the lookup.
HintNeverShortCircuits(hintId) == FALSE

\* const resolvedVendorId = vendorId || (await loadVendorIdByEmail(...)) || ...
HintShortCircuits(hintId) == Truthy(hintId)

\* The rest of a load with the session written whatever was resolved, the
\* check for an empty id coming after the write.
SettleWritesFirst(l, resolved, m) ==
    LET w == SetVendorSession(m, hasStorage, disk, ScreenPatch(l, resolved),
                              FALSE, FALSE) IN
    /\ load' = IF Unresolved(resolved)
               THEN [l EXCEPT !.pc = "done", !.resolved = resolved,
                              !.error = "unresolved"]
               ELSE [l EXCEPT !.pc = "queries", !.resolved = resolved,
                              !.queried = {resolved}]
    /\ mem' = w.mem
    /\ disk' = w.disk

\* The rest of a load with the data queries sent before the session is
\* written: the write has not happened when the queries go out.
SettleQueriesFirst(l, resolved, m) ==
    IF Unresolved(resolved)
    THEN /\ load' = [l EXCEPT !.pc = "done", !.resolved = resolved,
                              !.error = "unresolved"]
         /\ mem' = m
         /\ UNCHANGED disk
    ELSE /\ load' = [l EXCEPT !.pc = "queries", !.resolved = resolved,
                              !.queried = {resolved}]
         /\ mem' = m
         /\ UNCHANGED disk

\* The rest of a load once resolvedVendorId is known: throw when it is
\* empty, else write the session and send the data queries.
Settle(l, resolved, m) ==
    IF Unresolved(resolved)
    THEN /\ load' = [l EXCEPT !.pc = "done", !.resolved = resolved,
                              !.error = "unresolved"]
         /\ mem' = m
         /\ UNCHANGED disk
    ELSE LET w == SetVendorSession(m, hasStorage, disk, ScreenPatch(l, resolved),
                                   FALSE, FALSE) IN
         /\ load' = [l EXCEPT !.pc = "queries", !.resolved = resolved,
                              !.queried = {resolved}]
         /\ mem' = w.mem
         /\ disk' = w.disk

\* ... || readVendorIdFromCookie(), reached when the lookup gave nothing.
SettleWithCookie(l, id, m) ==
    IF Truthy(id)
    THEN Settle(l, id, m)
    ELSE Settle([l EXCEPT !.cookieReads = @ + 1],
                ReadVendorIdFromCookie(hasStorage, env.cookie).value, m)

\* A screen renders (reading the session and the route) and its load runs
\* up to its first request.
StartLoad(s) ==
    /\ nav = "tabs"
    /\ load.pc \in {"idle", "done"}
    /\ started < MaxLoads
    /\ started' = started + 1
    /\ LET got == GetVendorSession(mem, hasStorage, disk, FALSE)
           l == [IdleLoad EXCEPT
                   !.screen = s,
                   !.hintId = HintVendorId(params, got.ret, env.vendorId),
                   !.hintEmail = HintVendorEmail(params, got.ret),
                   !.sessEmail = got.ret.email]
       IN IF HintShortCircuits(l.hintId)
          THEN Settle(l, l.hintId, got.mem)
          ELSE IF LookupSendsRequest(s, l.hintEmail)
          THEN /\ load' = [l EXCEPT !.pc = "lookup", !.lookups = @ + 1,
                                    !.requests = @ + 1]
               /\ mem' = got.mem
               /\ UNCHANGED disk
          ELSE SettleWithCookie([l EXCEPT !.lookups = @ + 1], EmptyStr, got.mem)
    /\ held' = (held \/ Truthy(SessionVendorId(mem', hasStorage, disk')))
    /\ UNCHANGED <<hasStorage, histVars, lookVars, env, nav, params, login, logins>>

\* The failed lookup request is sent again, once, before the load gives up.
LookupFailsAndRetries ==
    /\ load.pc = "lookup"
    /\ IF load.requests < 2
       THEN load' = [load EXCEPT !.requests = @ + 1]
       ELSE \E f \in Failures :
               load' = [load EXCEPT !.pc = "done", !.error = f, !.failedAt = "lookup"]
    /\ UNCHANGED <<sessVars, histVars, lookVars, env, nav, params, started, login, logins,
                   held>>

\* graphQlRequest throws inside loadVendorIdByEmail: the load's catch block
\* takes the error.
LookupFails ==
    /\ load.pc = "lookup"
    /\ \E f \in Failures :
          load' = [load EXCEPT !.pc = "done", !.error = f, !.failedAt = "lookup"]
    /\ UNCHANGED <<sessVars, histVars, lookVars, env, nav, params, started, login, logins,
                   held>>

\* The ids loadVendorIdByEmail can return for an answered request.
LookupAnswersFor(l) ==
    IF l.screen = "packages"
    THEN {ToText(v.id, EmptyStr) : v \in BackendVendors}
    ELSE {LoadVendorIdByEmail(vs, l.hintEmail) : vs \in BackendLists}

LookupAnswers ==
    /\ load.pc = "lookup"
    /\ \E id \in LookupAnswersFor(load) :
          SettleWithCookie([load EXCEPT !.found = id], id, mem)
    /\ held' = (held \/ Truthy(SessionVendorId(mem', hasStorage, disk')))
    /\ UNCHANGED <<hasStorage, histVars, lookVars, env, nav, params, started, login, logins>>

\* The data queries of the load come back.
QueriesReturn ==
    /\ load.pc = "queries"
    /\ \E out \in {""} \cup Failures :
          load' = [load EXCEPT !.pc = "done", !.error = out,
                               !.failedAt = IF out = "" THEN "" ELSE "queries"]
    /\ UNCHANGED <<sessVars, histVars, lookVars, env, nav, params, started, login, logins,
                   held>>

\* handleLogin with a blank email or password, the validation coming after
\* clearVendorSession().
LoginBlankAfterClear ==
    /\ nav = "login"
    /\ login.pc \in {"idle", "done"}
    /\ login.error # "blank"
    /\ login' = [login EXCEPT !.error = "blank"]
    /\ LET c == ClearVendorSession(mem, hasStorage, disk, FALSE) IN
       mem' = c.mem /\ disk' = c.disk
    /\ UNCHANGED <<hasStorage, histVars, lookVars, env, nav, params, load, started, logins,
                   held>>

\* handleLogin with a blank email or password.
LoginBlank ==
    /\ nav = "login"
    /\ login.pc \in {"idle", "done"}
    /\ login.error # "blank"
    /\ login' = [login EXCEPT !.error = "blank"]
    /\ UNCHANGED <<sessVars, histVars, lookVars, env, nav, params, load, started, logins,
                   held>>

\* handleLogin up to the login request.
LoginSubmit(kind) ==
    /\ nav = "login"
    /\ login.pc \in {"idle", "done"}
    /\ logins < MaxLogins
    /\ logins' = logins + 1
    /\ \E e \in {t \in TypedEmails : Trim(t) # <<>>} :
          login' = [IdleLogin EXCEPT !.pc = "auth", !.kind = kind, !.email = e,
                                     !.loading = TRUE]
    /\ IF kind = "token"
       THEN LET c == ClearVendorSession(mem, hasStorage, disk, FALSE) IN
            mem' = c.mem /\ disk' = c.disk /\ held' = FALSE
       ELSE UNCHANGED <<mem, disk, held>>
    /\ UNCHANGED <<hasStorage, histVars, lookVars, env, nav, params, load, started>>

\* loginVendor throws: the request failed or was refused.
LoginRefused ==
    /\ login.pc = "auth"
    /\ login' = [login EXCEPT !.pc = "done", !.error = "login", !.loading = FALSE]
    /\ UNCHANGED <<sessVars, histVars, lookVars, env, nav, params, load, started, logins,
                   held>>

\* router.replace("/(tabs)", params) without the setVendorSession before it.
EnterTabsWithoutWrite(l, id) ==
    LET normalizedEmail == Trim(l.email)
    IN /\ UNCHANGED <<mem, disk>>
       /\ nav' = "tabs"
       /\ params' = [NoParams EXCEPT !.email = normalizedEmail,
                                     !.vendor_email = normalizedEmail,
                                     !.vendor_id = id]
       /\ login' = [l EXCEPT !.pc = "done", !.resolved = id, !.loading = FALSE]

\* setVendorSession({ email, vendorId }); router.replace("/(tabs)", params)
EnterTabs(l, id) ==
    LET normalizedEmail == Trim(l.email)
        w == SetVendorSession(mem, hasStorage, disk,
                              [email |-> normalizedEmail, vendorId |-> id],
                              FALSE, FALSE)
    IN /\ mem' = w.mem
       /\ disk' = w.disk
       /\ nav' = "tabs"
       /\ params' = [NoParams EXCEPT !.email = normalizedEmail,
                                     !.vendor_email = normalizedEmail,
                                     !.vendor_id = id]
       /\ login' = [l EXCEPT !.pc = "done", !.resolved = id, !.loading = FALSE]

\* The id the token login takes from the response before any lookup.
ResponseVendorId(payload) ==
    LET responseVendorId ==
            IF IsString(payload.vendorId) THEN payload.vendorId
            ELSE IF IsString(payload.vendor_id) THEN payload.vendor_id
            ELSE EmptyStr
    IN Or(responseVendorId, ExtractVendorIdFromJwt(env.atob, payload.access_token).value)

\* The login request succeeded.
LoginAccepted ==
    /\ login.pc = "auth"
    /\ \E payload \in LoginPayloads :
          IF login.kind = "token" /\ Truthy(ResponseVendorId(payload))
          THEN EnterTabs([login EXCEPT !.payload = payload], ResponseVendorId(payload))
          ELSE /\ login' = [login EXCEPT !.pc = "lookup", !.payload = payload,
                                         !.lookups = @ + 1]
               /\ UNCHANGED <<mem, disk, nav, params>>
    /\ held' = (held \/ Truthy(SessionVendorId(mem', hasStorage, disk')))
    /\ UNCHANGED <<hasStorage, histVars, lookVars, env, load, started, logins>>

\* The ids resolveVendorIdByEmail can return: "" for any failure.
LoginLookupResults ==
    {EmptyStr} \cup
    IF login.kind = "token"
    THEN {IF IsString(v.id) THEN v.id ELSE EmptyStr : v \in BackendVendors}
    ELSE {ResolveVendorIdByEmailList(vs, Trim(login.email)) : vs \in BackendLists}

\* resolveVendorIdByEmail returns.
LoginLookedUp ==
    /\ login.pc = "lookup"
    /\ \E id \in LoginLookupResults :
          IF login.kind = "token" /\ ~Truthy(id)
          THEN /\ login' = [login EXCEPT !.pc = "done", !.error = "unresolved",
                                         !.loading = FALSE, !.found = id]
               /\ UNCHANGED <<mem, disk, nav, params>>
          ELSE EnterTabs([login EXCEPT !.found = id], id)
    /\ held' = (held \/ Truthy(SessionVendorId(mem', hasStorage, disk')))
    /\ UNCHANGED <<hasStorage, histVars, lookVars, env, load, started, logins>>

\* The profile screens: "clearing" calls clearVendorSession() in its
\* handleLogout, "plain" only navigates.
Profiles == {"clearing", "plain"}

\* handleLogout of the profile tab. The tabs are replaced by the login
\* screen and their screens unmount; a load that still awaits its lookup or
\* its queries goes on, its screen left.
Logout(profile) ==
    /\ nav = "tabs"
    /\ IF profile = "clearing"
       THEN LET c == ClearVendorSession(mem, hasStorage, disk, FALSE) IN
            mem' = c.mem /\ disk' = c.disk /\ held' = FALSE
       ELSE UNCHANGED <<mem, disk, held>>
    /\ nav' = "login"
    /\ params' = NoParams
    /\ login' = IdleLogin
    /\ load' = IF load.pc \in {"lookup", "queries"}
               THEN [load EXCEPT !.left = TRUE]
               ELSE IdleLoad
    /\ UNCHANGED <<hasStorage, histVars, lookVars, env, started, logins>>

Next ==
    \/ \E s \in Screens : StartLoad(s)
    \/ LookupFails
    \/ LookupAnswers
    \/ QueriesReturn
    \/ LoginBlank
    \/ \E k \in LoginKinds : LoginSubmit(k)
    \/ LoginRefused
    \/ LoginAccepted
    \/ LoginLookedUp
    \/ \E p \in Profiles : Logout(p)

Spec == AppInit /\ [][Next]_vars

(***************************************************************************)
(* Claims about the session store, checked under SpecSession.              *)
(***************************************************************************)

\* What the durable storage held, as a session, before the last call: the
\* stored object when the storage exists, getItem did not throw and the
\* entry is JSON for an object; the empty session otherwise.
DurableBefore ==
    IF hasStorage /\ "getItem" \notin last.threw /\ last.diskBefore.kind = "object"
    THEN JSONParse(last.diskBefore)
    ELSE EmptySession

\* What a read of the session yields in the state before the last call.
SeenBefore ==
    IF NonEmpty(last.memBefore) THEN last.memBefore
    ELSE IF NonEmpty(DurableBefore) THEN DurableBefore
    ELSE EmptySession

\* C1: clearVendorSession() immediately followed by getVendorSession()
\* returns the empty record, whatever the session held and whatever the
\* durable storage did (removal succeeded, removal threw, storage absent).
C1_ClearThenReadIsEmpty ==
    [][(last.op = "clear" /\ last'.op = "get") => last'.ret = EmptySession]_vars

\* C2 as stated: after setVendorSession(p1) followed by setVendorSession(p2)
\* every field holds p2's value if p2 has the key, else p1's if p1 has the
\* key, else the value the session had before p1.
C2_FieldsAccumulate ==
    [][(last.op = "set" /\ last'.op = "set") =>
          \A f \in Fields :
             mem'[f] = IF f \in DOMAIN last'.patch THEN last'.patch[f]
                       ELSE IF f \in DOMAIN last.patch THEN last.patch[f]
                       ELSE last.base[f]]_vars

\* C2 as amended: the same, provided the session left by the first merge has
\* a non-empty vendorId or email.
C2_FieldsAccumulateOverNonEmpty ==
    [][(last.op = "set" /\ last'.op = "set" /\ NonEmpty(mem)) =>
          \A f \in Fields :
             mem'[f] = IF f \in DOMAIN last'.patch THEN last'.patch[f]
                       ELSE IF f \in DOMAIN last.patch THEN last.patch[f]
                       ELSE last.base[f]]_vars

\* merge({vendorId: "1"}) then merge({email: "a"}) over an empty session
\* has left {vendorId: "1", email: "a"}.
C2_Witness ==
    /\ prev = "set" /\ last.op = "set"
    /\ last.memBefore = [vendorId |-> <<"1">>, email |-> Undefined]
    /\ DOMAIN last.patch = {"email"} /\ last.patch["email"] = <<"a">>
    /\ last.diskBefore.kind # "object"
    /\ mem = [vendorId |-> <<"1">>, email |-> <<"a">>]

\* C3: getVendorSession() returns the in-memory value when that has a
\* non-empty vendorId or email; otherwise the durable value when that has
\* one, and memory then equals the returned value; otherwise {} with memory
\* unchanged. It never writes to durable storage.
C3_ReadTiers ==
    last.op = "get" =>
        /\ disk = last.diskBefore
        /\ last.calls \subseteq {"getItem"}
        /\ IF NonEmpty(last.memBefore)
           THEN last.ret = last.memBefore /\ mem = last.memBefore
           ELSE IF NonEmpty(DurableBefore)
           THEN last.ret = DurableBefore /\ mem = last.ret
           ELSE last.ret = EmptySession /\ mem = last.memBefore

\* A read that found memory empty and took a non-empty session from storage.
C3_Witness ==
    /\ last.op = "get"
    /\ ~NonEmpty(last.memBefore)
    /\ NonEmpty(last.ret)
    /\ mem = last.ret

\* The storage read of the last call failed or found nothing usable.
UnusableRead ==
    \/ ~hasStorage
    \/ "getItem" \in last.threw
    \/ last.diskBefore.kind \in {"empty", "garbage", "nonobject"}

\* C4: getVendorSession, setVendorSession and clearVendorSession never
\* raise, whatever the storage does, and a failed or unusable storage read
\* is treated like an absent key: the session read is empty.
C4_NeverRaises ==
    /\ ~last.raised
    /\ (last.op = "get" /\ ~NonEmpty(last.memBefore) /\ UnusableRead) =>
           (last.ret = EmptySession /\ mem = last.memBefore)
    /\ (last.op = "set" /\ ~NonEmpty(last.memBefore) /\ UnusableRead) =>
           last.base = EmptySession

\* getItem threw over a stored non-empty session, and the read returned {}.
C4_Witness ==
    /\ last.op = "get"
    /\ "getItem" \in last.threw
    /\ last.diskBefore.kind = "object"
    /\ NonEmpty(JSONParse(last.diskBefore))
    /\ ~last.raised
    /\ last.ret = EmptySession

\* C5: setVendorSession(patch) leaves memory equal to
\* {...getVendorSession(), ...patch}, also when the durable write fails or
\* the storage is absent, and a getVendorSession() that follows returns that
\* value whenever it has a non-empty vendorId or email.
C5_MemoryHoldsMerge ==
    [][/\ last'.op = "set" => mem' = Spread(SeenBefore', last'.patch)
       /\ (last.op = "set" /\ last'.op = "get" /\ NonEmpty(mem)) =>
              (last'.ret = mem /\ mem' = mem)]_vars

\* A merge whose durable write threw, followed by a read of the merged value.
C5_Witness ==
    /\ prev = "set" /\ last.op = "get"
    /\ hasStorage
    /\ disk.kind = "null"
    /\ last.ret = [vendorId |-> <<"2">>, email |-> <<"a">>]
    /\ mem = last.ret

\* C20: after a setVendorSession whose durable write went through, a
\* restart followed by getVendorSession() (with getItem working) returns
\* the vendorId and email a read gave before the restart; and a
\* getVendorSession() over a memory with a non-empty field makes no call
\* to the durable storage.
C20_RestartRoundTrip ==
    [][/\ (/\ prev = "set" /\ last.op = "restart" /\ last'.op = "get"
           /\ hasStorage
           /\ last.diskBefore = JSONStringify(last.memBefore)
           /\ "getItem" \notin last'.threw) =>
              (/\ last'.ret.vendorId = SeenBefore.vendorId
               /\ last'.ret.email = SeenBefore.email)
       /\ (last'.op = "get" /\ NonEmpty(mem)) => last'.calls = {}]_vars

\* A merge, a restart and a read that took {vendorId: "1", email: "a"} back
\* from the storage into the empty memory.
C20_Witness ==
    /\ prev2 = "set" /\ prev = "restart" /\ last.op = "get"
    /\ hasStorage
    /\ last.memBefore = EmptySession
    /\ last.calls = {"getItem"}
    /\ last.threw = {}
    /\ last.ret = [vendorId |-> <<"1">>, email |-> <<"a">>]
    /\ mem = last.ret

(***************************************************************************)
(* Claims about two merges in a row, checked under SpecMerge.              *)
(***************************************************************************)

\* The two patches set no field in common.
Disjoint == DOMAIN mg.p1 \cap DOMAIN mg.p2 = {}

\* C21 as stated: setVendorSession(p) twice leaves the session one call
\* leaves; two patches that set disjoint fields leave the same session in
\* either order; a field both patches set holds the value of the last one.
C21_MergeIdempotentCommutative ==
    /\ mg.ran = "twice" => mg.second = mg.first
    /\ (mg.ran = "orders" /\ Disjoint) => mg.second = mg.swapped
    /\ mg.ran = "orders" =>
          \A f \in DOMAIN mg.p2 : mg.second[f] = mg.p2[f]

\* C21 as amended: the same, provided the session every first merge leaves
\* has a non-empty vendorId or email.
C21_MergeIdempotentCommutativeOverNonEmpty ==
    /\ (mg.ran = "twice" /\ NonEmpty(mg.first)) => mg.second = mg.first
    /\ (mg.ran = "orders" /\ Disjoint /\ NonEmpty(mg.first) /\ NonEmpty(mg.other)) =>
          mg.second = mg.swapped
    /\ mg.ran = "orders" =>
          \A f \in DOMAIN mg.p2 : mg.second[f] = mg.p2[f]

\* {vendorId: "1"} and {email: "a"} merged in both orders over an empty
\* session left {vendorId: "1", email: "a"} both times.
C21_Witness ==
    /\ mg.ran = "orders"
    /\ mem = EmptySession /\ disk = NoEntry
    /\ DOMAIN mg.p1 = {"vendorId"} /\ mg.p1["vendorId"] = <<"1">>
    /\ DOMAIN mg.p2 = {"email"} /\ mg.p2["email"] = <<"a">>
    /\ mg.second = [vendorId |-> <<"1">>, email |-> <<"a">>]
    /\ mg.swapped = mg.second

(***************************************************************************)
(* Claims about the list lookup, checked under SpecLookup.                 *)
(***************************************************************************)

\* The two emails are equal after trimming and ignoring letter case.
SameEmail(listed, target) ==
    IsString(listed) /\ ToLowerCase(Trim(listed)) = ToLowerCase(Trim(target))

\* C10: the screens' list lookup returns the first entry's id only when no
\* email was available; with a non-blank email it returns nothing or the id
\* of a listed vendor whose email matches it, never the id of a vendor with
\* a different email.
C10_ListLookupMatchesEmail ==
    (lk.fn = "screen" /\ Trim(lk.email) # <<>> /\ lk.result # EmptyStr) =>
        \E i \in DOMAIN lk.vendors :
            lk.vendors[i].id = lk.result /\ SameEmail(lk.vendors[i].email, lk.email)

\* The listed vendors whose email equals the target after trimming and
\* ignoring letter case on both.
Matching(vendors, target) ==
    {i \in DOMAIN vendors : SameEmail(vendors[i].email, target)}

\* C11: as stated, for every list and every non-blank target email the lookup
\* by email (the screens' and the login's) matches a listed vendor whose email
\* equals the target after trimming surrounding whitespace and ignoring
\* letter case on both emails, and yields the id of such a vendor.
C11_LookupTrimsAndIgnoresCase ==
    (/\ lk.fn # "none"
     /\ Trim(lk.email) # <<>>
     /\ Matching(lk.vendors, lk.email) # {}
     /\ \A i \in Matching(lk.vendors, lk.email) : Truthy(lk.vendors[i].id)) =>
        \E i \in Matching(lk.vendors, lk.email) : lk.result = lk.vendors[i].id

(***************************************************************************)
(* Claims about the token decoders, checked under SpecToken.               *)
(***************************************************************************)

\* The token carries no subject a decoder could give in this context: it is
\* undefined or empty, has fewer than two segments, its payload is no
\* base64 or no JSON, sub is missing or no string, or atob is missing.
Undecodable(t, hasAtob) ==
    \/ ~t.present
    \/ t.segs < 2
    \/ t.payload # "object"
    \/ ~IsString(t.sub)
    \/ ~hasAtob

\* C12: the token decoders are total: for every token and every execution
\* context they never raise, they return "" for a token that is undefined or
\* empty, has fewer than two segments, is no base64 or no JSON, lacks a
\* string sub, or meets no atob or no document, and the resolution chain
\* then goes on: the login to the lookup by email, the screen (whose last
\* strategy the cookie is) to the unresolved-identity failure.
C12_DecodersAreTotal ==
    /\ ~tk.jwt.raised
    /\ ~tk.cookie.raised
    /\ (tk.jwt.next # "none" /\ Undecodable(tk.token, tk.atob)) =>
           (tk.jwt.value = EmptyStr /\ tk.jwt.next = "lookup")
    /\ (tk.cookie.next # "none" /\ Undecodable(tk.token, tk.atob /\ tk.document)) =>
           (tk.cookie.value = EmptyStr /\ tk.cookie.next = "unresolved")

\* Both decoders ran on a three-segment token whose payload is no base64,
\* where atob exists, and gave "".
C12_Witness ==
    /\ tk.token = MalformedToken
    /\ tk.atob /\ tk.document
    /\ tk.jwt.next = "lookup"
    /\ tk.cookie.next = "unresolved"
    /\ tk.jwt.value = EmptyStr
    /\ tk.cookie.value = EmptyStr

\* C13: as stated, for every token header.payload.signature whose payload is
\* the base64url encoding of a JSON object with a string sub claim S, read
\* where atob and document exist, each decoder returns exactly S, and the
\* two decoders return the same value.
C13_DecodersReturnSub ==
    (/\ tk.token.present /\ tk.token.segs = 3 /\ tk.token.payload = "object"
     /\ IsString(tk.token.sub)
     /\ tk.atob /\ tk.document) =>
        /\ tk.jwt.next # "none" => tk.jwt.value = tk.token.sub
        /\ tk.cookie.next # "none" => tk.cookie.value = tk.token.sub
        /\ (tk.jwt.next # "none" /\ tk.cookie.next # "none") =>
               tk.jwt.value = tk.cookie.value

(***************************************************************************)
(* Claims about the screens' identity resolution, checked under Spec.      *)
(***************************************************************************)

\* What the cookie fallback yields in this execution context.
CookieVendorId == ReadVendorIdFromCookie(hasStorage, env.cookie).value

\* C6: in a screen's load with a non-empty hint vendor id, the resolved id
\* is the hint, and neither the lookup by email nor the cookie decode is
\* invoked.
C6_HintShortCircuitsResolution ==
    (load.pc # "idle" /\ Truthy(load.hintId)) =>
        /\ load.resolved = load.hintId
        /\ load.lookups = 0
        /\ load.cookieReads = 0

\* A load that took its id from the route a login navigated with, and ended
\* without error.
C6_Witness ==
    /\ load.pc = "done"
    /\ load.error = ""
    /\ params.vendor_id = <<"1">>
    /\ load.hintId = <<"1">>
    /\ load.resolved = <<"1">>

\* C7: when the hint id is empty and the lookup by email fails, the lookup
\* yields no result instead of an exception and the resolution goes on to
\* the cookie, so that a decodable cookie gives the resolved id.
C7_FailedLookupFallsBackToCookie ==
    (/\ load.pc = "done"
     /\ ~Truthy(load.hintId)
     /\ load.failedAt = "lookup"
     /\ Truthy(CookieVendorId)) =>
        /\ load.cookieReads = 1
        /\ load.resolved = CookieVendorId
        /\ load.error \notin Failures

\* C8: when every strategy fails (no hint, no decodable cookie, the lookup
\* throws), the resolution yields "" and the error the screen shows is the
\* unresolved-identity failure, not the lookup's error.
C8_AllFailSurfacesUnresolved ==
    (/\ load.pc = "done"
     /\ ~Truthy(load.hintId)
     /\ load.failedAt = "lookup"
     /\ ~Truthy(CookieVendorId)) =>
        (load.resolved = EmptyStr /\ load.error = "unresolved")

\* C9: a vendor-scoped data query is sent only with a non-empty vendor id,
\* and a load whose resolution yields "" sends none, also after a login
\* that navigated with an empty vendor_id.
C9_QueriesCarryVendorId ==
    /\ \A id \in load.queried : Truthy(id) /\ id = load.resolved
    /\ load.pc = "queries" => load.queried # {}
    /\ (load.pc = "done" /\ ~Truthy(load.resolved)) => load.queried = {}

\* A login navigated with vendor_id "", and the load that followed resolved
\* nothing and sent no data query.
C9_Witness ==
    /\ nav = "tabs"
    /\ params.vendor_id = EmptyStr
    /\ login.pc = "done"
    /\ load.pc = "done"
    /\ load.resolved = EmptyStr
    /\ load.error = "unresolved"
    /\ load.queried = {}

\* C14: as stated, once the session's vendorId is non-empty, every
\* resolution a screen starts later, until clearVendorSession() is called,
\* invokes neither the lookup by email nor the cookie decode.
C14_SessionVendorIdStaysAuthoritative ==
    [][(started' = started + 1 /\ held) =>
          (load'.lookups = 0 /\ load'.cookieReads = 0)]_vars

\* The id field of a login response: vendorId, else vendor_id, "" when the
\* response has neither.
IdField(p) ==
    IF IsString(p.vendorId) THEN p.vendorId
    ELSE IF IsString(p.vendor_id) THEN p.vendor_id
    ELSE EmptyStr

\* The sub claim of the response's access_token as a working decoder gives it.
TokenSub(p) ==
    IF env.atob /\ p.access_token.present /\ p.access_token.payload = "object"
       /\ IsString(p.access_token.sub)
    THEN p.access_token.sub
    ELSE EmptyStr

\* The login request of the last attempt was accepted.
LoginWasAccepted == login.pc = "lookup" \/ (login.pc = "done" /\ login.error # "login")

\* C15: at login the vendor id is the first non-empty of the response's id
\* field, the sub claim of its access_token and the result of the lookup by
\* email, and the lookup is invoked only when the first two are empty; in a
\* screen it is the first non-empty of the hint id, the lookup's result and
\* the cookie's sub, the lookup is invoked only when the hint is empty and
\* the cookie is read only when hint and lookup are both empty.
C15_FirstNonEmptyInFixedOrder ==
    /\ LoginWasAccepted =>
          /\ login.lookups > 0 =>
                (~Truthy(IdField(login.payload)) /\ ~Truthy(TokenSub(login.payload)))
          /\ login.pc = "done" =>
                login.resolved = Or(IdField(login.payload),
                                    Or(TokenSub(login.payload), login.found))
    /\ (load.pc # "idle" /\ load.failedAt # "lookup") =>
          /\ load.lookups > 0 => ~Truthy(load.hintId)
          /\ load.cookieReads > 0 => (~Truthy(load.hintId) /\ ~Truthy(load.found))
          /\ load.pc \in {"queries", "done"} =>
                load.resolved = Or(load.hintId, Or(load.found, CookieVendorId))

\* The position of a load in its forward order.
Rank(pc) == CASE pc = "idle" -> 0 [] pc = "lookup" -> 1 [] pc = "queries" -> 2
              [] pc = "done" -> 3

\* C16: within one resolution each strategy is attempted at most once and in
\* forward order only: the lookup is invoked at most once and sends at most
\* one request, the cookie is read at most once, nothing is invoked again
\* once the cookie was read, and the same holds for the login's lookup;
\* counts start again only when the whole load (or login) is started again
\* (a logout unmounts the screen and what it counted).
C16_NoRetryWithinResolution ==
    [][/\ load'.lookups <= 1 /\ load'.requests <= 1 /\ load'.cookieReads <= 1
       /\ login'.lookups <= 1
       /\ (started' = started /\ ~(nav = "tabs" /\ nav' = "login")) =>
             /\ Rank(load'.pc) >= Rank(load.pc)
             /\ load'.lookups >= load.lookups
             /\ load'.requests >= load.requests
             /\ load'.cookieReads >= load.cookieReads
             /\ load.cookieReads = 1 =>
                   (load'.lookups = load.lookups /\ load'.requests = load.requests)
       /\ (started' # started) => (started' = started + 1 /\ load.pc \in {"idle", "done"})
       /\ (logins' = logins /\ login'.pc # "idle") => login'.lookups >= login.lookups]_vars

\* A second load (after "Try Again") that sent its one lookup request, read
\* the cookie once and ended unresolved.
C16_Witness ==
    /\ started = 2
    /\ load.pc = "done"
    /\ load.error = "unresolved"
    /\ load.lookups = 1
    /\ load.requests = 1
    /\ load.cookieReads = 1

\* C17: whenever a screen's resolution yields a non-empty vendor id, the id
\* is in the session store (in memory, and in the durable storage when there
\* is one) at the moment the load's data queries are sent.
C17_SessionWrittenBeforeQueries ==
    [][(load'.pc = "queries" /\ (load.pc # "queries" \/ started' # started)) =>
          /\ Truthy(load'.resolved)
          /\ load'.queried = {load'.resolved}
          /\ SessionVendorId(mem', hasStorage, disk') = load'.resolved
          /\ mem'.vendorId = load'.resolved
          /\ hasStorage =>
                (disk'.kind = "object" /\ JSONParse(disk').vendorId = load'.resolved)]_vars

\* A load that found no hint and no vendor by email, took its id from the
\* cookie, and has its queries out with that id in the session.
C17_Witness ==
    /\ load.pc = "queries"
    /\ ~Truthy(load.hintId)
    /\ ~Truthy(load.found)
    /\ load.cookieReads = 1
    /\ load.resolved = <<"2">>
    /\ mem.vendorId = <<"2">>
    /\ JSONParse(disk).vendorId = <<"2">>

(***************************************************************************)
(* Claims about the hints, checked under SpecHint.                         *)
(***************************************************************************)

\* The first non-empty string of a sequence of values, "" when there is none.
RECURSIVE FirstNonEmpty(_)
FirstNonEmpty(vs) ==
    IF vs = <<>> THEN EmptyStr
    ELSE IF Truthy(Head(vs)) THEN Head(vs)
    ELSE FirstNonEmpty(Tail(vs))

\* C18: the hint vendor id a screen starts from is the first non-empty of
\* the route parameters vendor_id, vendorId, id, then the session's
\* vendorId, then the environment default; the hint email is the first
\* non-empty of the route's vendor_email, the route's email and the
\* session's email.
C18_HintPrecedence ==
    load.screen # "none" =>
        /\ load.hintId = FirstNonEmpty(<<params.vendor_id, params.vendorId, params.id,
                                         mem.vendorId, env.vendorId>>)
        /\ load.hintEmail = FirstNonEmpty(<<params.vendor_email, params.email, mem.email>>)

\* A screen rendered with an empty vendor_id and a vendorId, an id, a
\* session vendorId and an environment default all different: the hint is
\* the route's vendorId.
C18_Witness ==
    /\ load.screen = "reservations"
    /\ params.vendor_id = EmptyStr
    /\ params.vendorId = <<"2">>
    /\ params.id = <<"3">>
    /\ mem.vendorId = <<"4">>
    /\ env.vendorId = <<"9">>
    /\ load.hintId = <<"2">>
    /\ params.vendor_email = Undefined
    /\ load.hintEmail = <<"b">>

(***************************************************************************)
(* Claims about the GraphQL exchange, checked under SpecRequest.           *)
(***************************************************************************)

\* The exchange succeeded: the endpoint is configured, the response came,
\* its status is 2xx, its body is JSON whose errors are absent or empty and
\* whose data is present.
Succeeded ==
    /\ rq.url
    /\ rq.response.fetch = "answers"
    /\ rq.response.ok
    /\ rq.response.body = "json"
    /\ rq.response.errors \in {"absent", "empty"}
    /\ rq.response.data = "present"

\* C19: every copy of the request code returns data exactly when the status
\* is 2xx, the errors are absent or empty and the data is present; for a
\* non-2xx status, non-empty errors, an unparseable body, missing data or a
\* missing endpoint URL it returns no data, and the screens' graphQlRequest
\* then throws.
C19_DataOnlyFromCleanResponse ==
    rq.out.copy # "none" =>
        /\ rq.out.returned <=> Succeeded
        /\ (rq.out.copy # "login" /\ ~Succeeded) => rq.out.threw
        /\ rq.out.returned => ~rq.out.threw

\* A 200 response carrying both data and errors went through a screen's
\* graphQlRequest, which threw.
C19_Witness ==
    /\ rq.out.copy = "packages"
    /\ rq.url
    /\ rq.response = [fetch |-> "answers", ok |-> TRUE, body |-> "json",
                      errors |-> "some", data |-> "present"]
    /\ rq.out.threw
    /\ rq.out.error = "graphql"
    /\ ~rq.out.returned

\* getVendorSession()
Session == GetVendorSession(mem, hasStorage, disk, FALSE).ret

\* The lookup of a load whose screen was left comes back.
LateLookupReturns == load.left /\ load.pc = "lookup" /\ load'.pc # "lookup"

\* The login screen finished a login that wrote the session and opened the
\* tabs, after the pending load's screen was left.
LoginStoredSince == nav = "tabs" /\ login.pc = "done" /\ login.error = ""

\* C22: when the lookup of a load whose screen was left by a logout comes
\* back, a session that is empty stays empty, and after a login that has
\* since stored its vendorId and email both stay what that login stored.
C22_LateWriteBackDoesNoHarm ==
    [][LateLookupReturns =>
          /\ ~NonEmpty(Session) => ~NonEmpty(Session')
          /\ LoginStoredSince =>
                /\ Session'.vendorId = Session.vendorId
                /\ Session'.email = Session.email]_vars

\* C23: a logout leaves the in-memory session {} and no durable entry when
\* the login screen appears.
C23_LogoutClearsSession ==
    [][(nav = "tabs" /\ nav' = "login") =>
          (mem' = EmptySession /\ disk' = NoEntry)]_vars

\* The resolution of a load ends in this step without an id: nothing was
\* resolved, or the lookup request failed.
ResolutionEndsWithoutId ==
    /\ started' # started \/ load.pc = "lookup"
    /\ load'.pc = "done"
    /\ load'.error = "unresolved" \/ load'.failedAt = "lookup"

\* The in-memory session once the screen has rendered (the render's
\* getVendorSession() fills an empty memory from storage).
Rendered ==
    IF started' # started THEN GetVendorSession(mem, hasStorage, disk, FALSE).mem ELSE mem

\* C24: a load whose resolution ends unresolved or with a failed lookup
\* writes nothing: the session in memory is the one the screen rendered
\* with and the durable entry is unchanged.
C24_UnresolvedLoadWritesNothing ==
    [][ResolutionEndsWithoutId => (mem' = Rendered /\ disk' = disk)]_vars

\* A load ended unresolved over a session that holds an email.
C24_Witness ==
    /\ load.pc = "done" /\ load.error = "unresolved"
    /\ Session.email = <<"a">>
    /\ disk = JSONStringify(Session)

\* clearVendorSession() is called in this step: by the logout, or by the
\* token-based handleLogin before its login request.
ClearCalled ==
    \/ nav = "tabs" /\ nav' = "login"
    \/ login.pc # "auth" /\ login'.pc = "auth" /\ login'.kind = "token"

\* C25: in a step that does not call clearVendorSession(), a non-empty
\* vendorId of the session stays non-empty and a non-empty email stays
\* non-empty.
C25_NonEmptyFieldsSurviveWrites ==
    [][~ClearCalled =>
          /\ Truthy(Session.vendorId) => Truthy(Session'.vendorId)
          /\ Truthy(Session.email) => Truthy(Session'.email)]_vars

\* The token-based handleLogin ended in its catch block: loginVendor threw,
\* or no vendor id could be resolved after it.
TokenLoginFailed ==
    login.kind = "token" /\ login.pc = "done" /\ login.error \in {"login", "unresolved"}

\* C26: once a token-based login attempt has ended in an error, the login
\* screen still shows, the in-memory session is {} and there is no durable
\* entry.
C26_FailedLoginLeavesSessionEmpty ==
    TokenLoginFailed => (nav = "login" /\ mem = EmptySession /\ disk = NoEntry)

\* The token-based handleLogin reaches router.replace in this step.
TokenLoginEntersTabs == login.kind = "token" /\ nav = "login" /\ nav' = "tabs"

\* C27: when the token-based login opens the tabs, the session in memory
\* and in storage is exactly {email: the trimmed entered email, vendorId:
\* the resolved id}, the id is non-empty, and the route's vendor_id and
\* vendor_email are the session's vendorId and email.
C27_SuccessfulLoginStoresExactly ==
    [][TokenLoginEntersTabs =>
          /\ Truthy(login'.resolved)
          /\ mem' = [email |-> Trim(login.email), vendorId |-> login'.resolved]
          /\ disk' = IF hasStorage THEN JSONStringify(mem') ELSE NoEntry
          /\ params'.vendor_id = mem'.vendorId
          /\ params'.vendor_email = mem'.email]_vars

\* A token-based login as "B " opened the tabs with the id its lookup found.
C27_Witness ==
    /\ nav = "tabs"
    /\ login.kind = "token" /\ login.pc = "done" /\ login.error = ""
    /\ login.email = <<"B", " ">>
    /\ login.lookups = 1
    /\ mem = [email |-> <<"B">>, vendorId |-> login.resolved]
    /\ params.vendor_id = mem.vendorId

\* handleLogin returns from its validation in this step.
BlankRejected == login.error # "blank" /\ login'.error = "blank"

\* C28: handleLogin with a blank email or password sets the error and
\* changes nothing else: no request goes out, the session and the route
\* stay as they are, loading stays false.
C28_BlankLoginOnlySetsError ==
    [][BlankRejected =>
          /\ login' = [login EXCEPT !.error = "blank"]
          /\ ~login'.loading
          /\ login'.pc \in {"idle", "done"}
          /\ UNCHANGED <<mem, disk, nav, params, logins, load>>]_vars

\* A blank submit on the login screen over a stored session left the stored
\* session in place.
C28_Witness ==
    /\ nav = "login"
    /\ login.error = "blank"
    /\ ~login.loading
    /\ disk = JSONStringify(EarlierSession)

(***************************************************************************)
(* Claims about the view state of one component, checked under SpecView.   *)
(***************************************************************************)

\* Every call of the component has completed.
AllCompleted ==
    /\ vw.calls # <<>>
    /\ \A i \in 1..Len(vw.calls) : vw.calls[i].pc \in {"ok", "failed"}

\* The number of the call started last.
LastStarted == Len(vw.calls)

\* C29: once every overlapping load of the Packages screen has completed,
\* no error message is set together with non-empty sections, and the view
\* shows the rows of the load started last if it succeeded, its error and
\* no rows if it failed.
C29_LastStartedLoadWins ==
    (vw.component = "packages" /\ AllCompleted) =>
        /\ ~(vw.errorMessage # 0 /\ vw.data.rows)
        /\ IF vw.calls[LastStarted].pc = "ok"
           THEN vw.data.by = LastStarted /\ vw.errorMessage = 0
           ELSE vw.errorMessage = LastStarted /\ ~vw.data.rows

\* Call i completes in this step.
Completes(i) ==
    /\ i <= Len(vw.calls)
    /\ vw.calls[i].pc \in {"resolving", "querying"}
    /\ vw'.calls[i].pc \in {"ok", "failed"}

\* C30: a call clears the error message when it starts; when it completes,
\* loading and refreshing are false, and if it failed the data are empty
\* and the error message is set.
C30_CallsEndTheirLoadingPhase ==
    [][/\ Len(vw'.calls) > Len(vw.calls) => vw'.errorMessage = 0
       /\ \A i \in 1..MaxCalls :
             Completes(i) =>
                /\ ~vw'.loading /\ ~vw'.refreshing
                /\ vw'.calls[i].pc = "failed" =>
                      (vw'.errorMessage # 0 /\ ~vw'.data.rows)]_vars

\* On the Reservations screen a pull-to-refresh that followed a shown
\* result failed: the rows are gone, the error is shown, nothing spins.
C30_Witness ==
    /\ vw.component = "reservations"
    /\ Len(vw.calls) = 2
    /\ vw.calls[1].pc = "ok"
    /\ vw.calls[2] = [pc |-> "failed", trigger |-> "refresh"]
    /\ vw.errorMessage = 2 /\ ~vw.data.rows
    /\ ~vw.loading /\ ~vw.refreshing

====
